---- MODULE Spec2Model ----
(***************************************************************************)
(* Model of daf-selective-disclosure's SelectiveDisclosure plugin          *)
(* (packages/daf-selective-disclosure/src/action-handler.ts):              *)
(*   createSelectiveDisclosureRequest, getVerifiableCredentialsForSdr,     *)
(*   validatePresentationAgainstSdr.                                       *)
(*                                                                         *)
(* A JavaScript object is a function whose domain is the set of its own    *)
(* property names: a property that is absent is absent from the domain,    *)
(* and reading it yields undefined.  A JavaScript array is a sequence.     *)
(* A value of credentialSubject is a tagged value [t, v] so that strict    *)
(* equality distinguishes the string "0" from the number 0.                *)
(***************************************************************************)
EXTENDS Integers, Sequences, FiniteSets, TLC

VARIABLES
  vSdr,           \* validate: args.sdr.claims
  vPresentation,  \* validate: args.presentation.verifiableCredential
  valid,          \* validate: let valid
  claims,         \* validate: let claims
  vNext,          \* validate: index of the claim the for-of loop visits next
  vState          \* validate: "idle" | "loop" | "returned" | "rejected"

vvars == <<vSdr, vPresentation, valid, claims, vNext, vState>>

VARIABLES
  gArgs,          \* gather: args = { sdr: { claims, subject? }, did? }
  store,          \* gather: the credentials the data store holds
  findArgs,       \* gather: const findArgs = { where: [] }
  result,         \* gather: const result
  queries,        \* gather: the where lists handed to the store so far
  gNext,          \* gather: index of the claim the for-of loop visits next
  gState          \* gather: "idle" | "loop" | "await" | "returned" | "rejected"

gvars == <<gArgs, store, findArgs, result, queries, gNext, gState>>

VARIABLES
  data,           \* create: args.data, the caller's manifest object
  identity,       \* create: const identity, <<>> until the lookup answers
  jwtCall,        \* create: the arguments handed to createJWT, <<>> before
  calls,          \* create: number of calls made with this manifest object
  bState          \* create: "idle" | "lookup" | "sign" | "returned" | "rejected"

bvars == <<data, identity, jwtCall, calls, bState>>

vars == <<vvars, gvars, bvars>>

----------------------------------------------------------------------------
(* JavaScript objects                                                      *)

EmptyObj == [k \in {} |-> ""]

Has(o, k) == k \in DOMAIN o

\* { ...a, ...b }: own properties of a, overwritten by those of b
Spread(a, b) ==
  [k \in (DOMAIN a) \cup (DOMAIN b) |-> IF k \in DOMAIN b THEN b[k] ELSE a[k]]

\* delete o[k]
Delete(o, k) == [x \in (DOMAIN o) \ {k} |-> o[x]]

\* truthiness of a string-valued property: absent (undefined) and "" are falsy
TruthyStr(o, k) == Has(o, k) /\ o[k] # ""

\* truthiness of an array-valued property: every array, also [], is truthy
TruthyArr(o, k) == Has(o, k)

JsString(s) == [t |-> "string", v |-> s]
JsNumber(s) == [t |-> "number", v |-> s]

Opt(S) == {{}} \cup {{x} : x \in S}

Field(k, s) == IF s = {} THEN EmptyObj ELSE [x \in {k} |-> CHOOSE y \in s : TRUE]

SeqsUpTo(S, n) == UNION {[1..m -> S] : m \in 0..n}

Includes(seq, x) == \E j \in 1..Len(seq) : seq[j] = x

----------------------------------------------------------------------------
(* Inputs: claim requests and credentials                                  *)

MaxClaims == 2      \* longest manifest of the multi-claim inputs
MaxCreds == 2       \* longest presentation / store of the multi-claim inputs

ClaimTypes == {"", "name"}
ClaimValues == {"", "Alice"}
IssuerLists == {<<>>, <<[did |-> "did:a"]>>}
CredentialTypes == {"VC"}
CredentialContexts == {"ctx"}

\* every combination of set / unset fields of a claim request
ClaimRequests ==
  { Spread(Field("claimType", ct), Spread(Field("claimValue", cv),
      Spread(Field("issuers", is), Spread(Field("credentialType", cty),
        Spread(Field("credentialContext", cc), Field("essential", es))))))
    : ct \in Opt(ClaimTypes), cv \in Opt(ClaimValues), is \in Opt(IssuerLists),
      cty \in Opt(CredentialTypes), cc \in Opt(CredentialContexts),
      es \in Opt(BOOLEAN) }

\* the claim requests the longer manifests are built from
CoreRequests ==
  { r \in ClaimRequests :
      /\ ~Has(r, "claimValue") /\ ~Has(r, "issuers") /\ ~Has(r, "credentialType")
      /\ Has(r, "claimType") => r.claimType = "name" }

SubjectValues == {JsString("Alice"), JsString("alice"), JsString(""), JsNumber("0")}

Credentials ==
  { Spread([credentialSubject |-> Field("name", sv), issuer |-> [id |-> iss]],
      Spread(Field("@context", ctx), Field("type", ty)))
    : sv \in Opt(SubjectValues), iss \in {"did:a", "did:b"},
      ctx \in Opt({<<>>, <<"ctx">>}), ty \in Opt({<<>>, <<"VC">>}) }

\* the credentials the longer presentations are built from
CoreCredentials ==
  { c \in Credentials :
      /\ c.issuer.id = "did:a"
      /\ Has(c, "type") /\ c.type = <<>>
      /\ Has(c.credentialSubject, "name") => c.credentialSubject.name = JsString("Alice") }

----------------------------------------------------------------------------
(* The operations that are not running                                     *)

ValidateIdle ==
  /\ vSdr = <<>> /\ vPresentation = <<>> /\ valid = TRUE /\ claims = <<>>
  /\ vNext = 1 /\ vState = "idle"

GatherIdle ==
  /\ gArgs = EmptyObj /\ store = <<>> /\ findArgs = [where |-> <<>>]
  /\ result = <<>> /\ queries = <<>> /\ gNext = 1 /\ gState = "idle"

CreateIdle ==
  /\ data = EmptyObj /\ identity = <<>> /\ jwtCall = <<>> /\ calls = 0
  /\ bState = "idle"

----------------------------------------------------------------------------
(* validatePresentationAgainstSdr                                          *)

\* credential.credentialSubject[claimType] !== claimValue
ClaimValueDiffers(cr, credential) ==
  ~ ( /\ Has(credential.credentialSubject, cr.claimType)
      /\ credential.credentialSubject[cr.claimType] = JsString(cr.claimValue) )

\* variant: a truthiness test (!credentialSubject[claimType]) in place of === undefined
ClaimTypeMissingTruthiness(cr, credential) ==
  \/ ~ Has(credential.credentialSubject, cr.claimType)
  \/ credential.credentialSubject[cr.claimType] \in {JsString(""), JsNumber("0")}

\* credential.credentialSubject[claimType] === undefined
ClaimTypeMissing(cr, credential) ==
  ~ Has(credential.credentialSubject, cr.claimType)

\* variant: an empty issuers list treated as no constraint (issuers.length && ...)
IssuerNotListedNonEmpty(cr, credential) ==
  /\ Len(cr.issuers) > 0
  /\ ~ \E j \in 1..Len(cr.issuers) : cr.issuers[j].did = credential.issuer.id

\* !issuers.map((i) => i.did).includes(credential.issuer.id)
IssuerNotListed(cr, credential) ==
  ~ \E j \in 1..Len(cr.issuers) : cr.issuers[j].did = credential.issuer.id

\* The callback of verifiableCredential.filter: "keep" (returns true), "drop"
\* (returns false) or "throw" (TypeError: .includes read on undefined).
Predicate(cr, credential) ==
  IF /\ TruthyStr(cr, "claimType") /\ TruthyStr(cr, "claimValue")
     /\ ClaimValueDiffers(cr, credential)
    THEN "drop"
  ELSE IF /\ TruthyStr(cr, "claimType") /\ ~TruthyStr(cr, "claimValue")
          /\ ClaimTypeMissing(cr, credential)
    THEN "drop"
  ELSE IF TruthyArr(cr, "issuers") /\ IssuerNotListed(cr, credential)
    THEN "drop"
  ELSE IF TruthyStr(cr, "credentialContext") /\ ~Has(credential, "@context")
    THEN "throw"
  ELSE IF /\ TruthyStr(cr, "credentialContext")
          /\ ~Includes(credential["@context"], cr.credentialContext)
    THEN "drop"
  ELSE IF TruthyStr(cr, "credentialType") /\ ~Has(credential, "type")
    THEN "throw"
  ELSE IF /\ TruthyStr(cr, "credentialType")
          /\ ~Includes(credential.type, cr.credentialType)
    THEN "drop"
  ELSE "keep"

\* Array.prototype.filter visits every element in order; the first callback
\* that throws aborts the filter.
FilterThrows(cr, creds) ==
  \E j \in 1..Len(creds) : Predicate(cr, creds[j]) = "throw"

Keeps(cr, credential) == Predicate(cr, credential) = "keep"

Filter(cr, creds) == SelectSeq(creds, LAMBDA c : Keeps(cr, c))

\* variant: the essential === true conjunct dropped
EssentialUnsatisfiedAnyClaim(cr, credentials) == Len(credentials) = 0

\* credentialRequest.essential === true && credentials.length == 0
EssentialUnsatisfied(cr, credentials) ==
  Has(cr, "essential") /\ cr.essential = TRUE /\ Len(credentials) = 0

\* variant: a claim without matches is left out of the result
PushClaimMatchedOnly(out, cr, credentials) ==
  IF Len(credentials) = 0 THEN out
  ELSE Append(out, Spread(cr, [credentials |-> credentials]))

\* claims.push({ ...credentialRequest, credentials })
PushClaim(out, cr, credentials) ==
  Append(out, Spread(cr, [credentials |-> credentials]))

ValidateInputs ==
  ( { <<r>> : r \in ClaimRequests } \X SeqsUpTo(Credentials, 1) )
  \cup ( SeqsUpTo(CoreRequests, MaxClaims) \X SeqsUpTo(CoreCredentials, MaxCreds) )

InitValidate ==
  /\ GatherIdle /\ CreateIdle
  /\ \E in \in ValidateInputs : vSdr = in[1] /\ vPresentation = in[2]
  /\ valid = TRUE
  /\ claims = <<>>
  /\ vNext = 1
  /\ vState = "loop"

\* one iteration of: for (const credentialRequest of args.sdr.claims)
ValidateClaim ==
  /\ vState = "loop"
  /\ vNext <= Len(vSdr)
  /\ ~FilterThrows(vSdr[vNext], vPresentation)
  /\ LET credentialRequest == vSdr[vNext]
         credentials == Filter(credentialRequest, vPresentation)
     IN /\ valid' = IF EssentialUnsatisfied(credentialRequest, credentials)
                      THEN FALSE ELSE valid
        /\ claims' = PushClaim(claims, credentialRequest, credentials)
  /\ vNext' = vNext + 1
  /\ UNCHANGED <<vSdr, vPresentation, vState>>
  /\ UNCHANGED <<gvars, bvars>>

\* the filter callback throws: the async function's promise is rejected
ValidateThrow ==
  /\ vState = "loop"
  /\ vNext <= Len(vSdr)
  /\ FilterThrows(vSdr[vNext], vPresentation)
  /\ vState' = "rejected"
  /\ UNCHANGED <<vSdr, vPresentation, valid, claims, vNext>>
  /\ UNCHANGED <<gvars, bvars>>

\* return { valid, claims }
ValidateReturn ==
  /\ vState = "loop"
  /\ vNext > Len(vSdr)
  /\ vState' = "returned"
  /\ UNCHANGED <<vSdr, vPresentation, valid, claims, vNext>>
  /\ UNCHANGED <<gvars, bvars>>

NextValidate == ValidateClaim \/ ValidateThrow \/ ValidateReturn

SpecValidate == InitValidate /\ [][NextValidate]_vars

----------------------------------------------------------------------------
(* Properties of validatePresentationAgainstSdr                            *)

IsEssential(cr) == Has(cr, "essential") /\ cr.essential = TRUE

\* the claim request sets exactly the constraint fields in ks (essential is free)
ConstrainsOnly(cr, ks) == (DOMAIN cr) \ {"essential"} = ks

\* C1: when the validator returns, valid is false if and only if some claim of
\* the result has essential = true and an empty credentials list; in
\* particular a claim whose essential is false or absent never makes it false.
C1_ValidIffEssentialUnmatched ==
  vState = "returned" =>
    ( (valid = FALSE) <=>
      \E i \in 1..Len(claims) : IsEssential(vSdr[i]) /\ Len(claims[i].credentials) = 0 )

\* C1 witness: valid is false because of the essential second claim, after a
\* non-essential first claim without matches
C1_Witness ==
  /\ vState = "returned" /\ Len(claims) = 2
  /\ valid = FALSE
  /\ ~IsEssential(vSdr[1]) /\ Len(claims[1].credentials) = 0
  /\ IsEssential(vSdr[2]) /\ Len(claims[2].credentials) = 0

\* C2 (as claimed): for a claim request with claimType = T and claimValue = V
\* set (V any string, also "") and no other constraint, the credentials kept
\* are exactly those whose credentialSubject[T] is strictly equal to V.
C2_KeptIffStrictlyEqual ==
  \A i \in 1..Len(claims) :
    ( /\ ConstrainsOnly(vSdr[i], {"claimType", "claimValue"})
      /\ vSdr[i].claimType # "" ) =>
      claims[i].credentials =
        SelectSeq(vPresentation, LAMBDA c :
          /\ Has(c.credentialSubject, vSdr[i].claimType)
          /\ c.credentialSubject[vSdr[i].claimType] = JsString(vSdr[i].claimValue))

C4_NeverFails == vState # "rejected"

\* C6: the returned claims have the length of manifest.claims, and the i-th
\* entry carries every field of manifest.claims[i]; also after an essential
\* claim was found unsatisfied.
C6_ClaimsMirrorManifest ==
  vState = "returned" =>
    /\ Len(claims) = Len(vSdr)
    /\ \A i \in 1..Len(vSdr) :
         \A k \in DOMAIN vSdr[i] : Has(claims[i], k) /\ claims[i][k] = vSdr[i][k]

\* C6 witness: the first claim is essential and unsatisfied, the second repeats
\* its claimType and is still reported, with a match
C6_Witness ==
  /\ vState = "returned" /\ Len(vSdr) = 2 /\ Len(claims) = 2
  /\ IsEssential(vSdr[1]) /\ Len(claims[1].credentials) = 0
  /\ Has(vSdr[1], "claimType") /\ Has(vSdr[2], "claimType")
  /\ vSdr[1].claimType = vSdr[2].claimType
  /\ Len(claims[2].credentials) > 0

\* C10: for a claim request with issuers set (also the empty list), no kept
\* credential has an issuer.id outside issuers[].did, whatever the other
\* constraints; with an empty list nothing is kept.
C10_IssuerOutsideListRejected ==
  \A i \in 1..Len(claims) :
    Has(vSdr[i], "issuers") =>
      \A j \in 1..Len(claims[i].credentials) :
        \E n \in 1..Len(vSdr[i].issuers) :
          vSdr[i].issuers[n].did = claims[i].credentials[j].issuer.id

\* C10 witness: the only constraint is issuers = [did:a]; a credential issued by
\* did:b was presented and dropped
C10_Witness ==
  /\ Len(claims) = 1
  /\ ConstrainsOnly(vSdr[1], {"issuers"}) /\ vSdr[1].issuers = <<[did |-> "did:a"]>>
  /\ Len(vPresentation) = 1 /\ vPresentation[1].issuer.id = "did:b"
  /\ Len(claims[1].credentials) = 0

----------------------------------------------------------------------------
(* The data store behind dataStoreORMGetVerifiableCredentialsByClaims      *)

\* a is a substring of b, for the type and context names of the model
SubstringOf(a, b) == a = b \/ <<a, b>> \in {<<"VC", "VCard">>, <<"ctx", "ctx/v2">>}

\* the claim rows the store keeps for a credential: one per subject claim
ClaimRows(credential) ==
  { [ type |-> k,
      value |-> credential.credentialSubject[k].v,
      issuer |-> credential.issuer.id,
      subject |-> credential.credentialSubject.id.v,
      credentialType |-> credential.type,
      context |-> credential["@context"] ]
    : k \in (DOMAIN credential.credentialSubject) \ {"id"} }

\* one where condition on one row: op Like with a %x% pattern is a substring
\* test on the serialized column, the default op is membership in value
ConditionHolds(cond, row) ==
  IF Has(cond, "op") /\ cond.op = "Like"
    THEN \E n \in 1..Len(cond.value) :
           \E m \in 1..Len(row[cond.column]) :
             SubstringOf(cond.value[n][2], row[cond.column][m])
    ELSE \E n \in 1..Len(cond.value) : cond.value[n] = row[cond.column]

\* the credentials with a claim row that satisfies every condition
StoreQuery(where, creds) ==
  SelectSeq(creds, LAMBDA c :
    \E row \in ClaimRows(c) :
      \A n \in 1..Len(where) : ConditionHolds(where[n], row))

----------------------------------------------------------------------------
(* getVerifiableCredentialsForSdr                                          *)

\* '%' + x + '%'
LikePattern(x) == <<"%", x, "%">>

\* args.did || args.sdr.subject
DidOrSubject(args) ==
  IF TruthyStr(args, "did") THEN {args.did}
  ELSE IF TruthyStr(args.sdr, "subject") THEN {args.sdr.subject}
  ELSE {}

\* the findArgs.where?.push(...) calls of one loop iteration, in order
PushConditions(where, cr, args) ==
  LET w1 == IF TruthyStr(cr, "claimType")
              THEN Append(where, [column |-> "type", value |-> <<cr.claimType>>])
              ELSE where
      w2 == IF TruthyStr(cr, "claimValue")
              THEN Append(w1, [column |-> "value", value |-> <<cr.claimValue>>])
              ELSE w1
      w3 == IF TruthyArr(cr, "issuers")
              THEN Append(w2, [column |-> "issuer",
                               value |-> [n \in 1..Len(cr.issuers) |-> cr.issuers[n].did]])
              ELSE w2
      w4 == IF TruthyStr(cr, "credentialType")
              THEN Append(w3, [column |-> "credentialType",
                               value |-> <<LikePattern(cr.credentialType)>>,
                               op |-> "Like"])
              ELSE w3
      w5 == IF TruthyStr(cr, "credentialContext")
              THEN Append(w4, [column |-> "context",
                               value |-> <<LikePattern(cr.credentialContext)>>,
                               op |-> "Like"])
              ELSE w4
  IN IF DidOrSubject(args) # {}
       THEN Append(w5, [column |-> "subject",
                        value |-> <<CHOOSE d \in DidOrSubject(args) : TRUE>>])
       ELSE w5

GatherRequests == { r \in ClaimRequests : ~Has(r, "essential") }

GatherCoreRequests ==
  { Spread(Field("claimType", ct), Field("claimValue", cv))
    : ct \in Opt({"name", "email"}), cv \in Opt({"Alice"}) }

StoreCredentials ==
  { Spread([ credentialSubject |-> Spread([id |-> JsString(sub)], cs),
             issuer |-> [id |-> iss], type |-> ty ],
           Field("@context", {<<"ctx/v2">>}))
    : sub \in {"did:h", "did:s"},
      cs \in { [name |-> JsString("Alice")], [name |-> JsString("Bob")],
               [email |-> JsString("Alice")] },
      iss \in {"did:a", "did:b"}, ty \in {<<"VC">>, <<"VCard">>} }

StoreCoreCredentials ==
  { c \in StoreCredentials :
      /\ c.credentialSubject.id = JsString("did:h")
      /\ c.issuer.id = "did:a" /\ c.type = <<"VC">> }

GatherInputs ==
  ( { <<r>> : r \in GatherRequests } \X SeqsUpTo(StoreCredentials, 1) )
  \cup ( SeqsUpTo(GatherCoreRequests, MaxClaims)
           \X SeqsUpTo(StoreCoreCredentials, MaxCreds) )

InitGather ==
  /\ ValidateIdle /\ CreateIdle
  /\ \E in \in GatherInputs, did \in Opt({"did:h"}), subject \in Opt({"did:s"}) :
       /\ gArgs = Spread([sdr |-> Spread([claims |-> in[1]], Field("subject", subject))],
                         Field("did", did))
       /\ store = in[2]
  /\ findArgs = [where |-> <<>>]
  /\ result = <<>>
  /\ queries = <<>>
  /\ gNext = 1
  /\ gState = "loop"

\* one iteration up to the await: the pushes onto findArgs.where, then the call
\* of dataStoreORMGetVerifiableCredentialsByClaims(findArgs)
GatherQuery ==
  /\ gState = "loop"
  /\ gNext <= Len(gArgs.sdr.claims)
  /\ findArgs' = [where |-> PushConditions(findArgs.where, gArgs.sdr.claims[gNext], gArgs)]
  /\ queries' = Append(queries, findArgs'.where)
  /\ gState' = "await"
  /\ UNCHANGED <<gArgs, store, result, gNext>>
  /\ UNCHANGED <<vvars, bvars>>

\* the store answers: result.push({ ...credentialRequest, credentials })
GatherStoreAnswers ==
  /\ gState = "await"
  /\ LET credentials == StoreQuery(findArgs.where, store)
     IN result' = Append(result,
                    Spread(gArgs.sdr.claims[gNext], [credentials |-> credentials]))
  /\ gNext' = gNext + 1
  /\ gState' = "loop"
  /\ UNCHANGED <<gArgs, store, findArgs, queries>>
  /\ UNCHANGED <<vvars, bvars>>

\* the store call rejects: the error propagates, no partial result is returned
GatherStoreFails ==
  /\ gState = "await"
  /\ gState' = "rejected"
  /\ UNCHANGED <<gArgs, store, findArgs, result, queries, gNext>>
  /\ UNCHANGED <<vvars, bvars>>

\* return result
GatherReturn ==
  /\ gState = "loop"
  /\ gNext > Len(gArgs.sdr.claims)
  /\ gState' = "returned"
  /\ UNCHANGED <<gArgs, store, findArgs, result, queries, gNext>>
  /\ UNCHANGED <<vvars, bvars>>

NextGather == GatherQuery \/ GatherStoreAnswers \/ GatherStoreFails \/ GatherReturn

SpecGather == InitGather /\ [][NextGather]_vars

----------------------------------------------------------------------------
(* Properties of getVerifiableCredentialsForSdr                            *)

\* the conditions derived from one claim request alone, plus the subject one
OwnConditions(cr) == PushConditions(<<>>, cr, gArgs)

\* C5 (as claimed): the filter handed to the store for claims[i] is exactly
\* the conjunction of the conditions derived from claims[i] itself plus the
\* subject condition; nothing of claims[1..i-1] is in it.
C5_FilterOfOwnClaimOnly ==
  \A i \in 1..Len(queries) : queries[i] = OwnConditions(gArgs.sdr.claims[i])

\* the store holds only credentials of the subject the call asks for
StoreOfOneSubject ==
  \A d \in DidOrSubject(gArgs) :
    \A j \in 1..Len(store) : store[j].credentialSubject.id = JsString(d)

\* C9 (as claimed): for a claim request that sets neither credentialType nor
\* credentialContext, over credentials of the one subject, the credentials
\* the gatherer selects are exactly those the validator's filter keeps.
C9_GatherEqualsValidate ==
  StoreOfOneSubject =>
    \A i \in 1..Len(result) :
      ( ~Has(gArgs.sdr.claims[i], "credentialType")
        /\ ~Has(gArgs.sdr.claims[i], "credentialContext") ) =>
        result[i].credentials = Filter(gArgs.sdr.claims[i], store)

----------------------------------------------------------------------------
(* createSelectiveDisclosureRequest                                        *)

MaxCalls == 2       \* calls made with the same manifest object

\* the identities the identity manager knows: did:z holds a Secp256k1 key,
\* did:y holds none; any other did is unknown and the lookup rejects
KnownIdentities ==
  { [did |-> "did:z", keys |-> <<[kid |-> "k0", type |-> "Ed25519"],
                                 [kid |-> "k1", type |-> "Secp256k1"]>>],
    [did |-> "did:y", keys |-> <<[kid |-> "k2", type |-> "Ed25519"]>>] }

\* context.agent.identityManagerGetIdentity({ did: data.issuer })
GetIdentity(d) ==
  IF Has(d, "issuer") THEN { id \in KnownIdentities : id.did = d.issuer } ELSE {}

\* identity.keys.find((k) => k.type === 'Secp256k1'): the first such key
FindKey(id) ==
  LET hits == SelectSeq(id.keys, LAMBDA k : k.type = "Secp256k1")
  IN IF Len(hits) = 0 THEN {} ELSE {hits[1]}

\* { type: 'sdr', ...data }
Payload(d) == Spread([type |-> "sdr"], d)

Manifests ==
  { Spread([claims |-> cl],
      Spread(Field("issuer", iss), Spread(Field("subject", sub),
        Spread(Field("replyUrl", ru), Spread(Field("tag", tag), Field("type", ty))))))
    : cl \in {<<>>, <<[claimType |-> "name", essential |-> TRUE]>>},
      iss \in {{"did:z"}, {"did:y"}, {"did:x"}},
      sub \in Opt({"did:s"}), ru \in Opt({"https://reply"}),
      tag \in Opt({"session-1"}), ty \in Opt({"shareReq"}) }

InitCreate ==
  /\ ValidateIdle /\ GatherIdle
  /\ data \in Manifests
  /\ identity = <<>>
  /\ jwtCall = <<>>
  /\ calls = 1
  /\ bState = "lookup"

\* await identityManagerGetIdentity rejects; the catch returns the rejection
CreateLookupFails ==
  /\ bState = "lookup"
  /\ GetIdentity(data) = {}
  /\ bState' = "rejected"
  /\ UNCHANGED <<data, identity, jwtCall, calls>>
  /\ UNCHANGED <<vvars, gvars>>

\* the lookup answers, delete data.issuer, no Secp256k1 key:
\* throw Error('Signing key not found')
CreateKeyNotFound ==
  /\ bState = "lookup"
  /\ \E id \in GetIdentity(data) :
       /\ FindKey(id) = {}
       /\ identity' = id
  /\ data' = Delete(data, "issuer")
  /\ bState' = "rejected"
  /\ UNCHANGED <<jwtCall, calls>>
  /\ UNCHANGED <<vvars, gvars>>

\* the lookup answers, delete data.issuer, the key is found, createJWT is called
CreateSign ==
  /\ bState = "lookup"
  /\ \E id \in GetIdentity(data) :
       /\ FindKey(id) # {}
       /\ identity' = id
       /\ jwtCall' = [ payload |-> Payload(Delete(data, "issuer")),
                       options |-> [ signer |-> (CHOOSE k \in FindKey(id) : TRUE).kid,
                                     alg |-> "ES256K-R",
                                     issuer |-> id.did ] ]
  /\ data' = Delete(data, "issuer")
  /\ bState' = "sign"
  /\ UNCHANGED calls
  /\ UNCHANGED <<vvars, gvars>>

\* await createJWT resolves: return jwt
CreateReturn ==
  /\ bState = "sign"
  /\ bState' = "returned"
  /\ UNCHANGED <<data, identity, jwtCall, calls>>
  /\ UNCHANGED <<vvars, gvars>>

\* await createJWT rejects (signer error); the catch returns the rejection
CreateSignFails ==
  /\ bState = "sign"
  /\ bState' = "rejected"
  /\ UNCHANGED <<data, identity, jwtCall, calls>>
  /\ UNCHANGED <<vvars, gvars>>

\* the caller calls createSelectiveDisclosureRequest again with the same object
CreateAgain ==
  /\ bState \in {"returned", "rejected"}
  /\ calls < MaxCalls
  /\ calls' = calls + 1
  /\ identity' = <<>>
  /\ jwtCall' = <<>>
  /\ bState' = "lookup"
  /\ UNCHANGED data
  /\ UNCHANGED <<vvars, gvars>>

NextCreate ==
  \/ CreateLookupFails \/ CreateKeyNotFound \/ CreateSign
  \/ CreateReturn \/ CreateSignFails \/ CreateAgain

SpecCreate == InitCreate /\ [][NextCreate]_vars

----------------------------------------------------------------------------
(* Properties of createSelectiveDisclosureRequest                          *)

\* C7 (as claimed): the body handed to the signer is the manifest without
\* issuer plus type = "sdr": it has no issuer field, its type is exactly
\* "sdr", every other field is the manifest's, and the requester DID is the
\* envelope issuer.
C7_BodyIsManifestPlusSdrType ==
  bState \in {"sign", "returned"} =>
    /\ ~Has(jwtCall.payload, "issuer")
    /\ jwtCall.payload.type = "sdr"
    /\ DOMAIN jwtCall.payload = (DOMAIN data) \cup {"type"}
    /\ \A k \in (DOMAIN data) \ {"type"} : jwtCall.payload[k] = data[k]
    /\ jwtCall.options.issuer = identity.did

\* C8 (as claimed): no step of the call changes the caller's manifest object.
C8_ManifestUnchanged == [][data' = data]_vars

====
